---- MODULE Spec2Model ----
(***************************************************************************)
(* Model of ai_controller_fast_action_v0.3.py: the accept loop of          *)
(* run_ai_server, the signal handler, and handle_client with its two       *)
(* threads recv_loop and send_loop, which share the per-session            *)
(* shared_state / state_lock / stop_event and the module globals           *)
(* shutdown and next_command.                                              *)
(*                                                                         *)
(* One action is one step a thread takes between two points where another  *)
(* thread can run.  What the peer sends is chosen when a socket read       *)
(* returns: a recv returns a chunk of complete lines, a timeout, an error  *)
(* or (after end of stream) zero bytes.                                    *)
(***************************************************************************)
EXTENDS Integers, Sequences, FiniteSets, TLC

\* ------------------------------------------------------------------ bounds
\* connections the peer opens during one run of the server
MaxSessions == 2
\* state frames the peer answers with an image during one run of the server;
\* after that it sends no further frame that asks for a decision
MaxDecisions == 3
\* lines one recv(4096) chunk can hold
MaxChunk == 2
\* largest image length L the peer announces
MaxImg == 2
\* tokens a caller puts into one builder
MaxTokens == 3

\* ------------------------------------------------------ program constants
\* send_loop: for _ in range(10)
SleepSteps == 10

\* -------------------------------------------------------------- the data
\* the five keys handle_state writes, in the order it writes them
FieldOrder == <<"isDead", "numActivePlayers", "hasWeapon", "numWeapons", "gameEnded">>

Fields == {FieldOrder[i] : i \in 1..Len(FieldOrder)}

\* the second argument of each state_json.get(key, default)
Default(k) == IF k \in {"isDead", "hasWeapon", "gameEnded"} THEN FALSE ELSE 0

\* dict.get(k, default)
Get(d, k, default) == IF k \in DOMAIN d THEN d[k] ELSE default

\* d[k] = v on a dict: adds the key when it is absent
DictSet(d, k, v) == [x \in (DOMAIN d) \cup {k} |-> IF x = k THEN v ELSE d[x]]

\* handle_client: shared_state = {"isDead": False, "numActivePlayers": 0}
InitialSharedState == [isDead |-> FALSE, numActivePlayers |-> 0]

\* a local name that is not bound yet (send_loop's latest, handle_state's state_json)
Unbound == [unbound |-> TRUE]

\* next_command = None
None == [s |-> 0, n |-> 0]

\* The texts of the lines the peer sends (quotes left out of the texts).
LineFull == "{isDead:false,numActivePlayers:2,hasWeapon:true,numWeapons:1,gameEnded:false}"
LinePartial == "{numActivePlayers:3,score:7}"
LineEnded == "{gameEnded:true}"
LineDead == "{isDead:true,numActivePlayers:1}"
LineMalformed == "{isDead:"
\* only white space
LineBlank == " "
\* malformed JSON nested deeper than the interpreter's recursion limit (a line of
\* 1000 "["): json.loads raises RecursionError, which is no JSONDecodeError
LineDeep == "[[[[...[[[["

LineSet == {LineFull, LinePartial, LineEnded, LineDead, LineMalformed, LineDeep,
            LineBlank}

\* line.strip() leaves nothing
IsBlank(text) == text = LineBlank

\* the text is not valid JSON
IsMalformed(text) == text \in {LineMalformed, LineDeep}

\* the exception json.loads(line) raises, or "none"
Raises(text) ==
  CASE text = LineMalformed -> "JSONDecodeError"
    [] text = LineDeep -> "RecursionError"
    [] OTHER -> "none"

\* recv_loop line 276: except json.JSONDecodeError
Caught(e) == e = "JSONDecodeError"

\* the lines that end the game
IsTerminal(text) == text \in {LineEnded, LineDead}

\* json.loads(state_str) of a line that is a JSON object
json_loads(text) ==
  CASE text = LineFull ->
         [isDead |-> FALSE, numActivePlayers |-> 2, hasWeapon |-> TRUE,
          numWeapons |-> 1, gameEnded |-> FALSE]
    [] text = LinePartial -> [numActivePlayers |-> 3, score |-> 7]
    [] text = LineEnded -> [gameEnded |-> TRUE]
    [] text = LineDead -> [isDead |-> TRUE, numActivePlayers |-> 1]

\* ------------------------------------------------------------- the state
VARIABLES
  shutdown,        \* global shutdown
  sock_closed,     \* server_sock has been closed
  next_command,    \* global next_command
  n_dec,           \* calls of ai_image_analyzer so far
  mpc,             \* main thread: position in run_ai_server / handle_client
  sid,             \* connections accepted so far: the number of the current session
  close_count,     \* conn.close() calls on the current session's socket
  eof,             \* the peer closed the connection: every read returns b""
  stop_event,      \* handle_client's stop_event
  shared_state,    \* handle_client's shared_state
  state_lock,      \* holder of state_lock: "free", "recv" or "send"
  rpc,             \* recv_loop: position
  buffer,          \* recv_loop: number of complete lines in buffer (the text of a
                   \* line is chosen when it is split off)
  line,            \* recv_loop: line, the line split off last
  exc,             \* recv_loop: the exception that left the loop body, or "none"
  state_json,      \* handle_state: state_json
  upd_i,           \* handle_state: index in FieldOrder of the next key to write
  has_game_ended,  \* recv_loop: has_game_ended
  img_size,        \* request_image: img_size
  data,            \* request_image: len(data)
  spc,             \* send_loop: position
  latest,          \* send_loop: latest
  tmp,             \* send_loop: the value of next_command.encode("ascii")
  sleep_i,         \* send_loop: iterations of the sleep loop done
  wire,            \* command frames written to this connection, in order
  touched,         \* history: send_loop ran one of lines 304-307 on a pending value
                   \* since recv_loop last wrote next_command
  overwrote        \* history: the value in next_command was written over a value
                   \* not yet sent, with no step of lines 304-307 between the two
                   \* writes, and has not been sent since
VARIABLES
  commands,        \* AICommandBuilder: self._commands, the list of tokens
  raised,          \* the last call on the builder raised AssertionError
  last_call        \* history: the last method called on the builder and its amount

vars == <<shutdown, sock_closed, next_command, n_dec, mpc, sid, close_count, eof,
          stop_event, shared_state, state_lock, rpc, buffer, line, exc, state_json,
          upd_i, has_game_ended, img_size, data, spc, latest, tmp, sleep_i, wire,
          touched, overwrote, commands, raised, last_call>>

Init ==
  /\ shutdown = FALSE
  /\ sock_closed = FALSE
  /\ next_command = None
  /\ n_dec = 0
  /\ mpc = "loop"
  /\ sid = 0
  /\ close_count = 0
  /\ eof = FALSE
  /\ stop_event = FALSE
  /\ shared_state = InitialSharedState
  /\ state_lock = "free"
  /\ rpc = "idle"
  /\ buffer = 0
  /\ line = ""
  /\ exc = "none"
  /\ state_json = Unbound
  /\ upd_i = 0
  /\ has_game_ended = FALSE
  /\ img_size = 0
  /\ data = 0
  /\ spc = "idle"
  /\ latest = Unbound
  /\ tmp = None
  /\ sleep_i = 0
  /\ wire = <<>>
  /\ touched = FALSE
  /\ overwrote = FALSE
  /\ commands = <<>>
  /\ raised = FALSE
  /\ last_call = [op |-> "__init__", amount |-> 0]

\* ------------------------------------------------------- the main thread

\* run_ai_server line 348: while not shutdown
MainLoop ==
  /\ mpc = "loop"
  /\ mpc' = IF shutdown THEN "exit" ELSE "accept"
  /\ UNCHANGED <<shutdown, sock_closed, next_command, n_dec, sid, close_count, eof,
                 stop_event, shared_state, state_lock, rpc, buffer, line, exc,
                 state_json, upd_i, has_game_ended, img_size, data, spc, latest, tmp,
                 sleep_i, wire, touched, overwrote, commands, raised, last_call>>

\* handle_client, lines 240-248 and the first lines of the two loops: a new
\* connection with its own shared_state, state_lock and stop_event; the locals of
\* the threads start unbound.  The globals shutdown and next_command are not
\* assigned.
SessionInit ==
  /\ sid' = sid + 1
  /\ close_count' = 0
  /\ eof' = FALSE
  /\ stop_event' = FALSE
  /\ shared_state' = InitialSharedState
  /\ state_lock' = "free"
  /\ rpc' = "idle"
  /\ buffer' = 0
  /\ line' = ""
  /\ exc' = "none"
  /\ state_json' = Unbound
  /\ upd_i' = 0
  /\ has_game_ended' = FALSE
  /\ img_size' = 0
  /\ data' = 0
  /\ spc' = "idle"
  /\ latest' = Unbound
  /\ tmp' = None
  /\ sleep_i' = 0
  /\ wire' = <<>>
  /\ touched' = FALSE
  /\ overwrote' = FALSE

\* lines 350-351: server_sock.accept() returns a connection, handle_client is entered
AcceptConn ==
  /\ mpc = "accept"
  /\ ~sock_closed
  /\ sid < MaxSessions
  /\ mpc' = "start_receiver"
  /\ SessionInit
  /\ UNCHANGED <<shutdown, sock_closed, next_command, n_dec, commands, raised,
                 last_call>>

\* lines 352-353: server_sock.accept() raises socket.timeout: continue
AcceptTimeout ==
  /\ mpc = "accept"
  /\ ~sock_closed
  /\ mpc' = "loop"
  /\ UNCHANGED <<shutdown, sock_closed, next_command, n_dec, sid, close_count, eof,
                 stop_event, shared_state, state_lock, rpc, buffer, line, exc,
                 state_json, upd_i, has_game_ended, img_size, data, spc, latest, tmp,
                 sleep_i, wire, touched, overwrote, commands, raised, last_call>>

\* lines 354-355: server_sock.accept() on the closed socket raises OSError: break
AcceptOSError ==
  /\ mpc = "accept"
  /\ sock_closed
  /\ mpc' = "exit"
  /\ UNCHANGED <<shutdown, sock_closed, next_command, n_dec, sid, close_count, eof,
                 stop_event, shared_state, state_lock, rpc, buffer, line, exc,
                 state_json, upd_i, has_game_ended, img_size, data, spc, latest, tmp,
                 sleep_i, wire, touched, overwrote, commands, raised, last_call>>

\* line 324: receiver.start()
StartReceiver ==
  /\ mpc = "start_receiver"
  /\ mpc' = "start_sender"
  /\ rpc' = "top"
  /\ UNCHANGED <<shutdown, sock_closed, next_command, n_dec, sid, close_count, eof,
                 stop_event, shared_state, state_lock, buffer, line, exc, state_json,
                 upd_i, has_game_ended, img_size, data, spc, latest, tmp, sleep_i,
                 wire, touched, overwrote, commands, raised, last_call>>

\* line 325: sender.start()
StartSender ==
  /\ mpc = "start_sender"
  /\ mpc' = "join_receiver"
  /\ spc' = "top"
  /\ UNCHANGED <<shutdown, sock_closed, next_command, n_dec, sid, close_count, eof,
                 stop_event, shared_state, state_lock, rpc, buffer, line, exc,
                 state_json, upd_i, has_game_ended, img_size, data, latest, tmp,
                 sleep_i, wire, touched, overwrote, commands, raised, last_call>>

\* line 328: receiver.join() returns once recv_loop has ended
JoinReceiver ==
  /\ mpc = "join_receiver"
  /\ rpc = "done"
  /\ mpc' = "set_stop"
  /\ UNCHANGED <<shutdown, sock_closed, next_command, n_dec, sid, close_count, eof,
                 stop_event, shared_state, state_lock, rpc, buffer, line, exc,
                 state_json, upd_i, has_game_ended, img_size, data, spc, latest, tmp,
                 sleep_i, wire, touched, overwrote, commands, raised, last_call>>

\* line 329: stop_event.set()
MainSetStop ==
  /\ mpc = "set_stop"
  /\ mpc' = "join_sender"
  /\ stop_event' = TRUE
  /\ UNCHANGED <<shutdown, sock_closed, next_command, n_dec, sid, close_count, eof,
                 shared_state, state_lock, rpc, buffer, line, exc, state_json, upd_i,
                 has_game_ended, img_size, data, spc, latest, tmp, sleep_i, wire,
                 touched, overwrote, commands, raised, last_call>>

\* sender.join() left out: the main thread goes on while send_loop runs
JoinSender_noWait ==
  /\ mpc = "join_sender"
  /\ mpc' = "close"
  /\ UNCHANGED <<shutdown, sock_closed, next_command, n_dec, sid, close_count, eof,
                 stop_event, shared_state, state_lock, rpc, buffer, line, exc,
                 state_json, upd_i, has_game_ended, img_size, data, spc, latest, tmp,
                 sleep_i, wire, touched, overwrote, commands, raised, last_call>>

\* line 330: sender.join() returns once send_loop has ended
JoinSender ==
  /\ mpc = "join_sender"
  /\ spc = "done"
  /\ mpc' = "close"
  /\ UNCHANGED <<shutdown, sock_closed, next_command, n_dec, sid, close_count, eof,
                 stop_event, shared_state, state_lock, rpc, buffer, line, exc,
                 state_json, upd_i, has_game_ended, img_size, data, spc, latest, tmp,
                 sleep_i, wire, touched, overwrote, commands, raised, last_call>>

\* lines 332-333, with the end of the session ending the accept loop
CloseConn_endsServer ==
  /\ mpc = "close"
  /\ mpc' = "exit"
  /\ close_count' = close_count + 1
  /\ UNCHANGED <<shutdown, sock_closed, next_command, n_dec, sid, eof, stop_event,
                 shared_state, state_lock, rpc, buffer, line, exc, state_json, upd_i,
                 has_game_ended, img_size, data, spc, latest, tmp, sleep_i, wire,
                 touched, overwrote, commands, raised, last_call>>

\* lines 332-333: conn.close(); handle_client returns to the accept loop
CloseConn ==
  /\ mpc = "close"
  /\ mpc' = "loop"
  /\ close_count' = close_count + 1
  /\ UNCHANGED <<shutdown, sock_closed, next_command, n_dec, sid, eof, stop_event,
                 shared_state, state_lock, rpc, buffer, line, exc, state_json, upd_i,
                 has_game_ended, img_size, data, spc, latest, tmp, sleep_i, wire,
                 touched, overwrote, commands, raised, last_call>>

\* signal_handler without server_sock.close()
signal_handler_keepsSocket ==
  /\ mpc # "exit"
  /\ shutdown' = TRUE
  /\ UNCHANGED <<sock_closed, next_command, n_dec, mpc, sid, close_count, eof,
                 stop_event, shared_state, state_lock, rpc, buffer, line, exc,
                 state_json, upd_i, has_game_ended, img_size, data, spc, latest, tmp,
                 sleep_i, wire, touched, overwrote, commands, raised, last_call>>

\* lines 92-100: signal_handler runs in the main thread between two of its steps:
\* shutdown = True; server_sock.close()
signal_handler ==
  /\ mpc # "exit"
  /\ shutdown' = TRUE
  /\ sock_closed' = TRUE
  /\ UNCHANGED <<next_command, n_dec, mpc, sid, close_count, eof, stop_event,
                 shared_state, state_lock, rpc, buffer, line, exc, state_json, upd_i,
                 has_game_ended, img_size, data, spc, latest, tmp, sleep_i, wire,
                 touched, overwrote, commands, raised, last_call>>

\* handle_client is running: the session's socket is open
InSession == mpc \in {"start_receiver", "start_sender", "join_receiver", "set_stop",
                      "join_sender", "close"}

\* the peer closes its end: from now on every read of the socket returns b""
PeerClose ==
  /\ InSession
  /\ ~eof
  /\ eof' = TRUE
  /\ UNCHANGED <<shutdown, sock_closed, next_command, n_dec, mpc, sid, close_count,
                 stop_event, shared_state, state_lock, rpc, buffer, line, exc,
                 state_json, upd_i, has_game_ended, img_size, data, spc, latest, tmp,
                 sleep_i, wire, touched, overwrote, commands, raised, last_call>>

\* ---------------------------------------------------- recv_loop (receiver)

\* line 258: while not stop_event.is_set() and not shutdown; when the loop ends the
\* finally clause runs
RecvTop ==
  /\ rpc = "top"
  /\ rpc' = IF stop_event \/ shutdown THEN "finally" ELSE "recv"
  /\ UNCHANGED <<shutdown, sock_closed, next_command, n_dec, mpc, sid, close_count,
                 eof, stop_event, shared_state, state_lock, buffer, line, exc,
                 state_json, upd_i, has_game_ended, img_size, data, spc, latest, tmp,
                 sleep_i, wire, touched, overwrote, commands, raised, last_call>>

\* lines 260-262: conn.recv(4096) raises socket.timeout: continue
RecvTimeout ==
  /\ rpc = "recv"
  /\ ~eof
  /\ rpc' = "top"
  /\ UNCHANGED <<shutdown, sock_closed, next_command, n_dec, mpc, sid, close_count,
                 eof, stop_event, shared_state, state_lock, buffer, line, exc,
                 state_json, upd_i, has_game_ended, img_size, data, spc, latest, tmp,
                 sleep_i, wire, touched, overwrote, commands, raised, last_call>>

\* lines 264-265: conn.recv(4096) returns b"": continue
RecvEmpty ==
  /\ rpc = "recv"
  /\ eof
  /\ rpc' = "top"
  /\ UNCHANGED <<shutdown, sock_closed, next_command, n_dec, mpc, sid, close_count,
                 eof, stop_event, shared_state, state_lock, buffer, line, exc,
                 state_json, upd_i, has_game_ended, img_size, data, spc, latest, tmp,
                 sleep_i, wire, touched, overwrote, commands, raised, last_call>>

\* line 260: conn.recv(4096) raises an OSError that is no timeout (connection reset);
\* only socket.timeout is caught, so the exception leaves the loop
RecvError ==
  /\ rpc = "recv"
  /\ exc' = "OSError"
  /\ rpc' = "finally"
  /\ UNCHANGED <<shutdown, sock_closed, next_command, n_dec, mpc, sid, close_count,
                 eof, stop_event, shared_state, state_lock, buffer, line, state_json,
                 upd_i, has_game_ended, img_size, data, spc, latest, tmp, sleep_i,
                 wire, touched, overwrote, commands, raised, last_call>>

\* lines 260, 267: conn.recv(4096) returns a chunk of 1 to MaxChunk lines; buffer += chunk
RecvChunk ==
  /\ rpc = "recv"
  /\ ~eof
  /\ \E k \in 1..MaxChunk : buffer' = buffer + k
  /\ rpc' = "lines"
  /\ UNCHANGED <<shutdown, sock_closed, next_command, n_dec, mpc, sid, close_count,
                 eof, stop_event, shared_state, state_lock, line, exc, state_json,
                 upd_i, has_game_ended, img_size, data, spc, latest, tmp, sleep_i,
                 wire, touched, overwrote, commands, raised, last_call>>

\* line 268: while "\n" in buffer is false: back to the outer loop
RecvNoLine ==
  /\ rpc = "lines"
  /\ buffer = 0
  /\ rpc' = "top"
  /\ UNCHANGED <<shutdown, sock_closed, next_command, n_dec, mpc, sid, close_count,
                 eof, stop_event, shared_state, state_lock, buffer, line, exc,
                 state_json, upd_i, has_game_ended, img_size, data, spc, latest, tmp,
                 sleep_i, wire, touched, overwrote, commands, raised, last_call>>

\* lines 274-278 and 291: where recv_loop goes when handling a line raised e
AfterRaise(e) == IF Caught(e) THEN "lines" ELSE "finally"

\* lines 269-278 and 196: one line is split off; a blank line is skipped; else
\* handle_state is entered and json.loads parses the line.  (The peer sends a frame
\* that asks for a decision only while n_dec < MaxDecisions.)
RecvLine ==
  /\ rpc = "lines"
  /\ buffer > 0
  /\ buffer' = buffer - 1
  /\ \E text \in LineSet :
       /\ n_dec < MaxDecisions \/ Raises(text) # "none" \/ IsBlank(text) \/ IsTerminal(text)
       /\ line' = text
       /\ IF IsBlank(text)
          THEN rpc' = "lines" /\ UNCHANGED <<exc, state_json>>
          ELSE IF Raises(text) # "none"
          THEN /\ rpc' = AfterRaise(Raises(text))
               /\ exc' = IF Caught(Raises(text)) THEN "none" ELSE Raises(text)
               /\ UNCHANGED state_json
          ELSE rpc' = "lock" /\ state_json' = json_loads(text) /\ UNCHANGED exc
  /\ UNCHANGED <<shutdown, sock_closed, next_command, n_dec, mpc, sid, close_count,
                 eof, stop_event, shared_state, state_lock, upd_i, has_game_ended,
                 img_size, data, spc, latest, tmp, sleep_i, wire, touched, overwrote,
                 commands, raised, last_call>>

\* with state_lock taken without waiting for the holder to leave
Acquire_noWait(who) == state_lock' = who

\* with state_lock: thread who enters once the lock is free
Acquire(who) ==
  /\ state_lock = "free"
  /\ state_lock' = who

\* the end of a with state_lock block
Release == state_lock' = "free"

\* line 197: with state_lock
HandleStateLock ==
  /\ rpc = "lock"
  /\ Acquire("recv")
  /\ rpc' = "update"
  /\ upd_i' = 1
  /\ UNCHANGED <<shutdown, sock_closed, next_command, n_dec, mpc, sid, close_count,
                 eof, stop_event, shared_state, buffer, line, exc, state_json,
                 has_game_ended, img_size, data, spc, latest, tmp, sleep_i, wire,
                 touched, overwrote, commands, raised, last_call>>

\* lines 198-202 with a key that the frame does not carry left as it was
HandleStateSet_keepsAbsent ==
  /\ rpc = "update"
  /\ upd_i \in 1..Len(FieldOrder)
  /\ LET k == FieldOrder[upd_i] IN
       shared_state' = IF k \in DOMAIN state_json
                       THEN DictSet(shared_state, k, state_json[k])
                       ELSE shared_state
  /\ upd_i' = upd_i + 1
  /\ UNCHANGED <<shutdown, sock_closed, next_command, n_dec, mpc, sid, close_count,
                 eof, stop_event, state_lock, rpc, buffer, line, exc, state_json,
                 has_game_ended, img_size, data, spc, latest, tmp, sleep_i, wire,
                 touched, overwrote, commands, raised, last_call>>

\* lines 198-202: shared_state[key] = state_json.get(key, default), one key a step
HandleStateSet ==
  /\ rpc = "update"
  /\ upd_i \in 1..Len(FieldOrder)
  /\ LET k == FieldOrder[upd_i] IN
       shared_state' = DictSet(shared_state, k, Get(state_json, k, Default(k)))
  /\ upd_i' = upd_i + 1
  /\ UNCHANGED <<shutdown, sock_closed, next_command, n_dec, mpc, sid, close_count,
                 eof, stop_event, state_lock, rpc, buffer, line, exc, state_json,
                 has_game_ended, img_size, data, spc, latest, tmp, sleep_i, wire,
                 touched, overwrote, commands, raised, last_call>>

\* line 202: the with block ends
HandleStateUnlock ==
  /\ rpc = "update"
  /\ upd_i = Len(FieldOrder) + 1
  /\ Release
  /\ rpc' = "return"
  /\ upd_i' = 0
  /\ UNCHANGED <<shutdown, sock_closed, next_command, n_dec, mpc, sid, close_count,
                 eof, stop_event, shared_state, buffer, line, exc, state_json,
                 has_game_ended, img_size, data, spc, latest, tmp, sleep_i, wire,
                 touched, overwrote, commands, raised, last_call>>

\* the end test with the isDead key left out
EndCondition_gameEndedOnly(json, state) == Get(json, "gameEnded", FALSE)

\* lines 213-216: state_json.get("gameEnded", False) or shared_state["isDead"]
EndCondition(json, state) == Get(json, "gameEnded", FALSE) \/ state["isDead"]

\* lines 204-216 and 275: has_game_ended = handle_state(...)
HandleStateReturn ==
  /\ rpc = "return"
  /\ has_game_ended' = EndCondition(state_json, shared_state)
  /\ state_json' = Unbound
  /\ rpc' = "branch"
  /\ UNCHANGED <<shutdown, sock_closed, next_command, n_dec, mpc, sid, close_count,
                 eof, stop_event, shared_state, state_lock, buffer, line, exc, upd_i,
                 img_size, data, spc, latest, tmp, sleep_i, wire, touched, overwrote,
                 commands, raised, last_call>>

\* lines 280-282 with the break left out: the loop over the lines goes on
RecvGameEnded_noBreak ==
  /\ rpc = "branch"
  /\ has_game_ended
  /\ stop_event' = TRUE
  /\ rpc' = "lines"
  /\ UNCHANGED <<shutdown, sock_closed, next_command, n_dec, mpc, sid, close_count,
                 eof, shared_state, state_lock, buffer, line, exc, state_json, upd_i,
                 has_game_ended, img_size, data, spc, latest, tmp, sleep_i, wire,
                 touched, overwrote, commands, raised, last_call>>

\* lines 280-283: stop_event.set(); break
RecvGameEnded ==
  /\ rpc = "branch"
  /\ has_game_ended
  /\ stop_event' = TRUE
  /\ rpc' = "top"
  /\ UNCHANGED <<shutdown, sock_closed, next_command, n_dec, mpc, sid, close_count,
                 eof, shared_state, state_lock, buffer, line, exc, state_json, upd_i,
                 has_game_ended, img_size, data, spc, latest, tmp, sleep_i, wire,
                 touched, overwrote, commands, raised, last_call>>

\* lines 250-252
should_fetch_image(state) == TRUE

\* lines 284-286: the else branch; request_image is entered
RecvFetch ==
  /\ rpc = "branch"
  /\ ~has_game_ended
  /\ rpc' = IF should_fetch_image(shared_state) THEN "img_send" ELSE "lines"
  /\ UNCHANGED <<shutdown, sock_closed, next_command, n_dec, mpc, sid, close_count,
                 eof, stop_event, shared_state, state_lock, buffer, line, exc,
                 state_json, upd_i, has_game_ended, img_size, data, spc, latest, tmp,
                 sleep_i, wire, touched, overwrote, commands, raised, last_call>>

\* ---------------------------------------------------------- request_image
\* request_image returns None and the session is ended for it
NoImage_endsSession ==
  /\ rpc' = "finally"
  /\ img_size' = 0
  /\ data' = 0

\* request_image returns None, and line 287 (if img) sends recv_loop to the next line
NoImage ==
  /\ rpc' = "lines"
  /\ img_size' = 0
  /\ data' = 0

\* line 68: conn.sendall(b"GET_IMAGE\n")
ImgSend ==
  /\ rpc = "img_send"
  /\ rpc' = "img_len"
  /\ UNCHANGED <<shutdown, sock_closed, next_command, n_dec, mpc, sid, close_count,
                 eof, stop_event, shared_state, state_lock, buffer, line, exc,
                 state_json, upd_i, has_game_ended, img_size, data, spc, latest, tmp,
                 sleep_i, wire, touched, overwrote, commands, raised, last_call>>

\* line 68 raises; lines 87-89 return None
ImgSendFail ==
  /\ rpc = "img_send"
  /\ NoImage
  /\ UNCHANGED <<shutdown, sock_closed, next_command, n_dec, mpc, sid, close_count,
                 eof, stop_event, shared_state, state_lock, buffer, line, exc,
                 state_json, upd_i, has_game_ended, spc, latest, tmp, sleep_i, wire,
                 touched, overwrote, commands, raised, last_call>>

\* lines 71-74: conn.recv(4) returns fewer than 4 bytes (none after the peer closed)
ImgLenShort ==
  /\ rpc = "img_len"
  /\ NoImage
  /\ UNCHANGED <<shutdown, sock_closed, next_command, n_dec, mpc, sid, close_count,
                 eof, stop_event, shared_state, state_lock, buffer, line, exc,
                 state_json, upd_i, has_game_ended, spc, latest, tmp, sleep_i, wire,
                 touched, overwrote, commands, raised, last_call>>

\* line 71: conn.recv(4) raises (timeout, reset); lines 87-89 return None
ImgLenRaise ==
  /\ rpc = "img_len"
  /\ NoImage
  /\ UNCHANGED <<shutdown, sock_closed, next_command, n_dec, mpc, sid, close_count,
                 eof, stop_event, shared_state, state_lock, buffer, line, exc,
                 state_json, upd_i, has_game_ended, spc, latest, tmp, sleep_i, wire,
                 touched, overwrote, commands, raised, last_call>>

\* lines 71-78: four bytes are read; img_size = L; data = b""
ImgLen ==
  /\ rpc = "img_len"
  /\ ~eof
  /\ \E L \in 0..MaxImg : img_size' = L
  /\ data' = 0
  /\ rpc' = "img_data"
  /\ UNCHANGED <<shutdown, sock_closed, next_command, n_dec, mpc, sid, close_count,
                 eof, stop_event, shared_state, state_lock, buffer, line, exc,
                 state_json, upd_i, has_game_ended, spc, latest, tmp, sleep_i, wire,
                 touched, overwrote, commands, raised, last_call>>

\* lines 79-84: conn.recv(img_size - len(data)) returns a packet of 1 byte or more
ImgData ==
  /\ rpc = "img_data"
  /\ data < img_size
  /\ ~eof
  /\ \E n \in 1..(img_size - data) : data' = data + n
  /\ UNCHANGED <<shutdown, sock_closed, next_command, n_dec, mpc, sid, close_count,
                 eof, stop_event, shared_state, state_lock, rpc, buffer, line, exc,
                 state_json, upd_i, has_game_ended, img_size, spc, latest, tmp,
                 sleep_i, wire, touched, overwrote, commands, raised, last_call>>

\* lines 80-83: the packet is empty: connection closed mid-image
ImgDataClosed ==
  /\ rpc = "img_data"
  /\ data < img_size
  /\ eof
  /\ NoImage
  /\ UNCHANGED <<shutdown, sock_closed, next_command, n_dec, mpc, sid, close_count,
                 eof, stop_event, shared_state, state_lock, buffer, line, exc,
                 state_json, upd_i, has_game_ended, spc, latest, tmp, sleep_i, wire,
                 touched, overwrote, commands, raised, last_call>>

\* line 80 raises (timeout, reset); lines 87-89 return None
ImgDataRaise ==
  /\ rpc = "img_data"
  /\ data < img_size
  /\ NoImage
  /\ UNCHANGED <<shutdown, sock_closed, next_command, n_dec, mpc, sid, close_count,
                 eof, stop_event, shared_state, state_lock, buffer, line, exc,
                 state_json, upd_i, has_game_ended, spc, latest, tmp, sleep_i, wire,
                 touched, overwrote, commands, raised, last_call>>

\* line 86: Image.open(io.BytesIO(data)) returns an image (never of no bytes)
ImgOpen ==
  /\ rpc = "img_data"
  /\ data >= img_size
  /\ img_size > 0
  /\ rpc' = "decide"
  /\ UNCHANGED <<shutdown, sock_closed, next_command, n_dec, mpc, sid, close_count,
                 eof, stop_event, shared_state, state_lock, buffer, line, exc,
                 state_json, upd_i, has_game_ended, img_size, data, spc, latest, tmp,
                 sleep_i, wire, touched, overwrote, commands, raised, last_call>>

\* line 86 raises (the bytes are no image); lines 87-89 return None
ImgOpenFail ==
  /\ rpc = "img_data"
  /\ data >= img_size
  /\ NoImage
  /\ UNCHANGED <<shutdown, sock_closed, next_command, n_dec, mpc, sid, close_count,
                 eof, stop_event, shared_state, state_lock, buffer, line, exc,
                 state_json, upd_i, has_game_ended, spc, latest, tmp, sleep_i, wire,
                 touched, overwrote, commands, raised, last_call>>

\* ------------------------------------------- the decision and its result
\* The string ai_image_analyzer returns, told apart by the session and the call
\* that made it (which of random_choose_cmd's six strings it is, is left out).
Decision(s, n) == [s |-> s, n |-> n]

\* line 288: next_command = ai_image_analyzer(img)
Decide ==
  /\ rpc = "decide"
  /\ next_command' = Decision(sid, n_dec + 1)
  /\ n_dec' = n_dec + 1
  /\ overwrote' = (next_command # None /\ ~touched)
  /\ touched' = FALSE
  /\ rpc' = "save"
  /\ UNCHANGED <<shutdown, sock_closed, mpc, sid, close_count, eof, stop_event,
                 shared_state, state_lock, buffer, line, exc, state_json, upd_i,
                 has_game_ended, img_size, data, spc, latest, tmp, sleep_i, wire,
                 commands, raised, last_call>>

\* lines 289-290: img.save("latest_frame.png")
Save ==
  /\ rpc = "save"
  /\ rpc' = "lines"
  /\ img_size' = 0
  /\ data' = 0
  /\ UNCHANGED <<shutdown, sock_closed, next_command, n_dec, mpc, sid, close_count,
                 eof, stop_event, shared_state, state_lock, buffer, line, exc,
                 state_json, upd_i, has_game_ended, spc, latest, tmp, sleep_i, wire,
                 touched, overwrote, commands, raised, last_call>>

\* line 289 raises (truncated image data, file not writable); no except clause of
\* recv_loop matches
SaveRaise ==
  /\ rpc = "save"
  /\ exc' = "SaveError"
  /\ rpc' = "finally"
  /\ img_size' = 0
  /\ data' = 0
  /\ UNCHANGED <<shutdown, sock_closed, next_command, n_dec, mpc, sid, close_count,
                 eof, stop_event, shared_state, state_lock, buffer, line, state_json,
                 upd_i, has_game_ended, spc, latest, tmp, sleep_i, wire, touched,
                 overwrote, commands, raised, last_call>>

\* the thread ends with line 292 left out
RecvFinally_noSet ==
  /\ rpc = "finally"
  /\ rpc' = "done"
  /\ exc' = "none"
  /\ buffer' = 0
  /\ has_game_ended' = FALSE
  /\ UNCHANGED <<shutdown, sock_closed, next_command, n_dec, mpc, sid, close_count,
                 eof, stop_event, shared_state, state_lock, line, state_json, upd_i,
                 img_size, data, spc, latest, tmp, sleep_i, wire, touched, overwrote,
                 commands, raised, last_call>>

\* lines 291-292: finally: stop_event.set(); the thread ends, and with it its
\* locals and the exception that ended it
RecvFinally ==
  /\ rpc = "finally"
  /\ stop_event' = TRUE
  /\ rpc' = "done"
  /\ exc' = "none"
  /\ buffer' = 0
  /\ has_game_ended' = FALSE
  /\ UNCHANGED <<shutdown, sock_closed, next_command, n_dec, mpc, sid, close_count,
                 eof, shared_state, state_lock, line, state_json, upd_i, img_size,
                 data, spc, latest, tmp, sleep_i, wire, touched, overwrote, commands,
                 raised, last_call>>

\* ------------------------------------------------------ send_loop (sender)

\* line 297: while not stop_event.is_set() and not shutdown
SendTop ==
  /\ spc = "top"
  /\ spc' = IF stop_event \/ shutdown THEN "done" ELSE "lock"
  /\ UNCHANGED <<shutdown, sock_closed, next_command, n_dec, mpc, sid, close_count,
                 eof, stop_event, shared_state, state_lock, rpc, buffer, line, exc,
                 state_json, upd_i, has_game_ended, img_size, data, latest, tmp,
                 sleep_i, wire, touched, overwrote, commands, raised, last_call>>

\* line 299: with state_lock
SendLock ==
  /\ spc = "lock"
  /\ Acquire("send")
  /\ spc' = "copy"
  /\ UNCHANGED <<shutdown, sock_closed, next_command, n_dec, mpc, sid, close_count,
                 eof, stop_event, shared_state, rpc, buffer, line, exc, state_json,
                 upd_i, has_game_ended, img_size, data, latest, tmp, sleep_i, wire,
                 touched, overwrote, commands, raised, last_call>>

\* line 300: latest = dict(shared_state); the with block ends
SendCopy ==
  /\ spc = "copy"
  /\ latest' = shared_state
  /\ Release
  /\ spc' = "test"
  /\ UNCHANGED <<shutdown, sock_closed, next_command, n_dec, mpc, sid, close_count,
                 eof, stop_event, shared_state, rpc, buffer, line, exc, state_json,
                 upd_i, has_game_ended, img_size, data, tmp, sleep_i, wire, touched,
                 overwrote, commands, raised, last_call>>

\* line 304: if next_command (latest is not read again: it is dropped here)
SendTest ==
  /\ spc = "test"
  /\ spc' = IF next_command # None THEN "encode" ELSE "sleep"
  /\ touched' = (touched \/ next_command # None)
  /\ sleep_i' = 0
  /\ latest' = Unbound
  /\ UNCHANGED <<shutdown, sock_closed, next_command, n_dec, mpc, sid, close_count,
                 eof, stop_event, shared_state, state_lock, rpc, buffer, line, exc,
                 state_json, upd_i, has_game_ended, img_size, data, tmp, wire,
                 overwrote, commands, raised, last_call>>

\* line 306: the argument next_command.encode("ascii"), read from the global
SendEncode ==
  /\ spc = "encode"
  /\ tmp' = next_command
  /\ touched' = TRUE
  /\ spc' = "sendall"
  /\ UNCHANGED <<shutdown, sock_closed, next_command, n_dec, mpc, sid, close_count,
                 eof, stop_event, shared_state, state_lock, rpc, buffer, line, exc,
                 state_json, upd_i, has_game_ended, img_size, data, latest, sleep_i,
                 wire, overwrote, commands, raised, last_call>>

\* line 306: conn.sendall(...) writes the command to the connection
SendAll ==
  /\ spc = "sendall"
  /\ wire' = Append(wire, tmp)
  /\ touched' = TRUE
  /\ overwrote' = (overwrote /\ tmp # next_command)
  /\ spc' = "clear"
  /\ UNCHANGED <<shutdown, sock_closed, next_command, n_dec, mpc, sid, close_count,
                 eof, stop_event, shared_state, state_lock, rpc, buffer, line, exc,
                 state_json, upd_i, has_game_ended, img_size, data, latest, tmp,
                 sleep_i, commands, raised, last_call>>

\* lines 306, 308-311 with the failure only printed: the loop goes on
SendFail_retries ==
  /\ spc = "sendall"
  /\ touched' = TRUE
  /\ spc' = "sleep"
  /\ sleep_i' = 0
  /\ tmp' = None
  /\ UNCHANGED <<shutdown, sock_closed, next_command, n_dec, mpc, sid, close_count,
                 eof, stop_event, shared_state, state_lock, rpc, buffer, line, exc,
                 state_json, upd_i, has_game_ended, img_size, data, latest, wire,
                 overwrote, commands, raised, last_call>>

\* lines 306, 308-311: conn.sendall raises: stop_event.set(); break
SendFail ==
  /\ spc = "sendall"
  /\ stop_event' = TRUE
  /\ touched' = TRUE
  /\ spc' = "done"
  /\ tmp' = None
  /\ UNCHANGED <<shutdown, sock_closed, next_command, n_dec, mpc, sid, close_count,
                 eof, shared_state, state_lock, rpc, buffer, line, exc, state_json,
                 upd_i, has_game_ended, img_size, data, latest, sleep_i, wire,
                 overwrote, commands, raised, last_call>>

\* line 307 left out: the value stays in next_command after it is sent
SendClear_keeps ==
  /\ spc = "clear"
  /\ touched' = TRUE
  /\ overwrote' = FALSE
  /\ tmp' = None
  /\ spc' = "sleep"
  /\ sleep_i' = 0
  /\ UNCHANGED <<shutdown, sock_closed, next_command, n_dec, mpc, sid, close_count,
                 eof, stop_event, shared_state, state_lock, rpc, buffer, line, exc,
                 state_json, upd_i, has_game_ended, img_size, data, latest, wire,
                 commands, raised, last_call>>

\* line 307: next_command = None
SendClear ==
  /\ spc = "clear"
  /\ next_command' = None
  /\ touched' = TRUE
  /\ overwrote' = FALSE
  /\ tmp' = None
  /\ spc' = "sleep"
  /\ sleep_i' = 0
  /\ UNCHANGED <<shutdown, sock_closed, n_dec, mpc, sid, close_count, eof, stop_event,
                 shared_state, state_lock, rpc, buffer, line, exc, state_json, upd_i,
                 has_game_ended, img_size, data, latest, wire, commands, raised,
                 last_call>>

\* lines 316-319 with the test of line 317 left out: all the iterations are slept
SendSleep_fullCadence ==
  /\ spc = "sleep"
  /\ IF sleep_i < SleepSteps
     THEN sleep_i' = sleep_i + 1 /\ spc' = spc
     ELSE sleep_i' = 0 /\ spc' = "top"
  /\ UNCHANGED <<shutdown, sock_closed, next_command, n_dec, mpc, sid, close_count,
                 eof, stop_event, shared_state, state_lock, rpc, buffer, line, exc,
                 state_json, upd_i, has_game_ended, img_size, data, latest, tmp, wire,
                 touched, overwrote, commands, raised, last_call>>

\* lines 316-319: one iteration of the sleep loop: break when the stop signal or
\* shutdown is seen, else time.sleep(0.5); the loop ends after SleepSteps iterations
SendSleep ==
  /\ spc = "sleep"
  /\ IF sleep_i < SleepSteps /\ ~(stop_event \/ shutdown)
     THEN sleep_i' = sleep_i + 1 /\ spc' = spc
     ELSE sleep_i' = 0 /\ spc' = "top"
  /\ UNCHANGED <<shutdown, sock_closed, next_command, n_dec, mpc, sid, close_count,
                 eof, stop_event, shared_state, state_lock, rpc, buffer, line, exc,
                 state_json, upd_i, has_game_ended, img_size, data, latest, tmp, wire,
                 touched, overwrote, commands, raised, last_call>>

\* ------------------------------------------------------ the specification
Main ==
  \/ MainLoop
  \/ AcceptConn
  \/ AcceptTimeout
  \/ AcceptOSError
  \/ StartReceiver
  \/ StartSender
  \/ JoinReceiver
  \/ MainSetStop
  \/ JoinSender
  \/ CloseConn

Receiver ==
  \/ RecvTop
  \/ RecvTimeout
  \/ RecvEmpty
  \/ RecvError
  \/ RecvChunk
  \/ RecvNoLine
  \/ RecvLine
  \/ HandleStateLock
  \/ HandleStateSet
  \/ HandleStateUnlock
  \/ HandleStateReturn
  \/ RecvGameEnded
  \/ RecvFetch
  \/ ImgSend
  \/ ImgSendFail
  \/ ImgLenShort
  \/ ImgLenRaise
  \/ ImgLen
  \/ ImgData
  \/ ImgDataClosed
  \/ ImgDataRaise
  \/ ImgOpen
  \/ ImgOpenFail
  \/ Decide
  \/ Save
  \/ SaveRaise
  \/ RecvFinally

Sender ==
  \/ SendTop
  \/ SendLock
  \/ SendCopy
  \/ SendTest
  \/ SendEncode
  \/ SendAll
  \/ SendFail
  \/ SendClear
  \/ SendSleep

Environment ==
  \/ signal_handler
  \/ PeerClose

Next == Main \/ Receiver \/ Sender \/ Environment

Spec == Init /\ [][Next]_vars

\* The operating system schedules the three threads: a thread that can take a
\* step takes one in the end.  Nothing is assumed of the peer or of the signal.
FairSpec == Spec /\ WF_vars(Main) /\ WF_vars(Receiver) /\ WF_vars(Sender)

\* ------------------------------------------------------- AICommandBuilder
\* An amount is a number of thousandths (1000 is 1.0); a token holds the amount
\* as the text of f"{amount:.2f}", a number of hundredths.

\* the amounts a caller passes: below 0, 0.0, inside, 1.0, above 1
Amounts == {-100, -1, 0, 4, 500, 996, 1000, 1001, 1100}

\* f"{amount:.2f}": rounded to the nearest hundredth (no amount above is a tie)
Format2f(amount) == (amount + 5) \div 10

\* lines 126, 131, 136 with the check left out
InRange_unchecked(amount) == TRUE

\* lines 126, 131, 136: assert 0.0 <= amount <= 1.0
InRange(amount) == 0 <= amount /\ amount <= 1000

\* lines 125-138: left, right and jump: the check, then the token is appended
Movement(op, name, amount) ==
  /\ Len(commands) < MaxTokens
  /\ last_call' = [op |-> op, amount |-> amount]
  /\ IF InRange(amount)
     THEN /\ commands' = Append(commands, [name |-> name, amount |-> Format2f(amount)])
          /\ raised' = FALSE
     ELSE /\ raised' = TRUE
          /\ UNCHANGED commands

\* lines 140-150: pickup, drop and shoot append a token without an amount
Simple(op, name) ==
  /\ Len(commands) < MaxTokens
  /\ last_call' = [op |-> op, amount |-> 0]
  /\ commands' = Append(commands, [name |-> name])
  /\ raised' = FALSE

\* lines 125-128
left ==
  /\ \E amount \in Amounts : Movement("left", "LEFT", amount)
  /\ UNCHANGED <<shutdown, sock_closed, next_command, n_dec, mpc, sid, close_count,
                 eof, stop_event, shared_state, state_lock, rpc, buffer, line, exc,
                 state_json, upd_i, has_game_ended, img_size, data, spc, latest, tmp,
                 sleep_i, wire, touched, overwrote>>

\* lines 130-133
right ==
  /\ \E amount \in Amounts : Movement("right", "RIGHT", amount)
  /\ UNCHANGED <<shutdown, sock_closed, next_command, n_dec, mpc, sid, close_count,
                 eof, stop_event, shared_state, state_lock, rpc, buffer, line, exc,
                 state_json, upd_i, has_game_ended, img_size, data, spc, latest, tmp,
                 sleep_i, wire, touched, overwrote>>

\* lines 135-138
jump ==
  /\ \E amount \in Amounts : Movement("jump", "JUMP", amount)
  /\ UNCHANGED <<shutdown, sock_closed, next_command, n_dec, mpc, sid, close_count,
                 eof, stop_event, shared_state, state_lock, rpc, buffer, line, exc,
                 state_json, upd_i, has_game_ended, img_size, data, spc, latest, tmp,
                 sleep_i, wire, touched, overwrote>>

\* lines 140-142
pickup ==
  /\ Simple("pickup", "PICKUP")
  /\ UNCHANGED <<shutdown, sock_closed, next_command, n_dec, mpc, sid, close_count,
                 eof, stop_event, shared_state, state_lock, rpc, buffer, line, exc,
                 state_json, upd_i, has_game_ended, img_size, data, spc, latest, tmp,
                 sleep_i, wire, touched, overwrote>>

\* lines 144-146
drop ==
  /\ Simple("drop", "DROP")
  /\ UNCHANGED <<shutdown, sock_closed, next_command, n_dec, mpc, sid, close_count,
                 eof, stop_event, shared_state, state_lock, rpc, buffer, line, exc,
                 state_json, upd_i, has_game_ended, img_size, data, spc, latest, tmp,
                 sleep_i, wire, touched, overwrote>>

\* lines 148-150
shoot ==
  /\ Simple("shoot", "SHOOT")
  /\ UNCHANGED <<shutdown, sock_closed, next_command, n_dec, mpc, sid, close_count,
                 eof, stop_event, shared_state, state_lock, rpc, buffer, line, exc,
                 state_json, upd_i, has_game_ended, img_size, data, spc, latest, tmp,
                 sleep_i, wire, touched, overwrote>>

\* lines 152-155: self._commands.clear()
clear ==
  /\ commands # <<>>
  /\ commands' = <<>>
  /\ raised' = FALSE
  /\ last_call' = [op |-> "clear", amount |-> 0]
  /\ UNCHANGED <<shutdown, sock_closed, next_command, n_dec, mpc, sid, close_count,
                 eof, stop_event, shared_state, state_lock, rpc, buffer, line, exc,
                 state_json, upd_i, has_game_ended, img_size, data, spc, latest, tmp,
                 sleep_i, wire, touched, overwrote>>

\* lines 157-159: ";".join(self._commands), the string as the list of its tokens
build == commands

\* lines 162-178: a new builder, cleared; one of left(1.0), right(1.0), jump(1.0),
\* pickup(), drop(), shoot(); build() of it is returned
random_choose_cmd ==
  /\ \E cmd_type \in 0..5 :
       commands' = << CASE cmd_type = 0 -> [name |-> "LEFT", amount |-> Format2f(1000)]
                        [] cmd_type = 1 -> [name |-> "RIGHT", amount |-> Format2f(1000)]
                        [] cmd_type = 2 -> [name |-> "JUMP", amount |-> Format2f(1000)]
                        [] cmd_type = 3 -> [name |-> "PICKUP"]
                        [] cmd_type = 4 -> [name |-> "DROP"]
                        [] OTHER -> [name |-> "SHOOT"] >>
  /\ raised' = FALSE
  /\ last_call' = [op |-> "random_choose_cmd", amount |-> 0]
  /\ UNCHANGED <<shutdown, sock_closed, next_command, n_dec, mpc, sid, close_count,
                 eof, stop_event, shared_state, state_lock, rpc, buffer, line, exc,
                 state_json, upd_i, has_game_ended, img_size, data, spc, latest, tmp,
                 sleep_i, wire, touched, overwrote>>

Builder ==
  \/ left
  \/ right
  \/ jump
  \/ pickup
  \/ drop
  \/ shoot
  \/ clear
  \/ random_choose_cmd

\* a caller that uses a builder in any way, with the server not running
BuilderSpec == Init /\ [][Builder]_vars

\* ------------------------------------------------------------ properties
\* text is a state frame: a line that json.loads turns into an object
IsFrame(text) == text \in LineSet /\ ~IsBlank(text) /\ Raises(text) = "none"

\* text is a state frame whose isDead or gameEnded is true
EndsGame(text) ==
  /\ IsFrame(text)
  /\ Get(json_loads(text), "isDead", FALSE) \/ Get(json_loads(text), "gameEnded", FALSE)

\* text is a state frame in which isDead and gameEnded are both false
KeepsGame(text) == IsFrame(text) /\ ~EndsGame(text)

\* recv_loop is between splitting line off and the branch on has_game_ended
HandlingLine == rpc \in {"lock", "update", "return", "branch"}

\* this step writes GET_IMAGE to the connection
SendsImageRequest == rpc = "img_send" /\ rpc' = "img_len"

\* the snapshot that handling the frame json leaves, whatever was there before
Applied(json) == [k \in Fields |-> Get(json, k, Default(k))]

\* C1: once recv_loop has handled a frame whose isDead or gameEnded is true, the
\* stop signal is set, and from that frame on in the session recv_loop writes no
\* GET_IMAGE, calls no decision, writes nothing to next_command and splits off no
\* further line; handling a frame in which both are false does not set the signal.
C1_TerminalFrameStops ==
  /\ []((EndsGame(line) /\ ~HandlingLine) => stop_event)
  /\ [][(EndsGame(line) /\ sid' = sid) =>
          /\ ~SendsImageRequest
          /\ n_dec' = n_dec
          /\ next_command' \in {next_command, None}
          /\ line' = line]_vars
  /\ [][(KeepsGame(line) /\ rpc = "branch" /\ rpc' # "branch") =>
          stop_event' = stop_event]_vars

\* C1 witness: decisions were made, then a terminal frame ended recv_loop
C1_Witness == EndsGame(line) /\ rpc = "finally" /\ stop_event /\ n_dec > 0 /\ exc = "none"

\* C2: when recv_loop has written a value over an unsent one with no step of the
\* Sender's drain between the two writes, the next command put on the wire is
\* that value, and it does not leave next_command unsent.
C2_LatestWins ==
  [][(overwrote /\ sid' = sid) =>
       /\ wire' # wire => wire'[Len(wire')] = next_command
       /\ next_command' = None => wire' # wire]_vars

\* C3: a value leaves next_command only by a later write of recv_loop or by the
\* Sender's clear, and the Sender clears only the value it has sent last.
C3_DrainIsAtomic ==
  [][(sid' = sid /\ next_command # None /\ next_command' = None) =>
       (wire' # <<>> /\ wire'[Len(wire')] = next_command)]_vars

\* C4: every copy send_loop takes of shared_state is the initial snapshot or the
\* complete result of one frame.
C4_SnapshotAtomic ==
  latest # Unbound =>
    \/ latest = InitialSharedState
    \/ \E text \in LineSet : IsFrame(text) /\ latest = Applied(json_loads(text))

\* C4 witness: send_loop holds a copy of one frame's result while recv_loop is in
\* the middle of writing the next frame
C4_Witness ==
  /\ latest = Applied(json_loads(LineFull))
  /\ rpc = "update"
  /\ upd_i = 3
  /\ line = LinePartial

\* C5: every command on a session's wire was decided in that session.
C5_SessionIndependence == \A i \in 1..Len(wire) : wire[i].s = sid

\* C6: when the decision has returned, handling its result (saving the frame)
\* leaves recv_loop in its loop over the lines: the loop is not left and the
\* stop signal is not set by it.
C6_DecisionErrorCaught ==
  [][(rpc \in {"decide", "save"} /\ rpc' \notin {"decide", "save"}) =>
       (rpc' = "lines" /\ stop_event' = stop_event)]_vars

\* C7: once the peer has closed the connection, or a read has raised an error,
\* the session gets closed.
C7_ConnectionLossEndsSession == (eof \/ exc = "OSError") ~> (close_count = 1)

\* C8: once shutdown is set it stays set and no connection is accepted, and in the
\* end the accept loop has ended with both loops of the last session ended and its
\* socket closed.
C8_GlobalShutdown ==
  /\ [][shutdown => (shutdown' /\ sid' = sid)]_vars
  /\ shutdown ~> /\ mpc = "exit"
                 /\ sid > 0 => (rpc = "done" /\ spc = "done" /\ close_count = 1)

\* C8 witness: shutdown was set while both loops of a session were running
C8_Witness ==
  /\ shutdown
  /\ mpc = "join_receiver"
  /\ rpc = "img_data"
  /\ spc = "sleep"

\* the lifecycle state of the current session
SessionState ==
  IF close_count > 0 THEN "Closed"
  ELSE IF stop_event \/ shutdown THEN "Terminating"
  ELSE "Active"

Rank(st) == CASE st = "Active" -> 0 [] st = "Terminating" -> 1 [] st = "Closed" -> 2

\* C9: within a session the state only moves Active -> Terminating -> Closed and
\* the stop signal is never cleared; the socket is closed at most once, and only
\* when both loops have ended.
C9_Lifecycle ==
  /\ [](close_count <= 1 /\ (close_count = 1 => (rpc = "done" /\ spc = "done")))
  /\ [][sid' = sid =>
          /\ Rank(SessionState') >= Rank(SessionState)
          /\ stop_event => stop_event']_vars

\* C9 witness: a session that sent a command has been closed, without shutdown
C9_Witness == close_count = 1 /\ ~shutdown /\ stop_event /\ Len(wire) > 0

\* C10: splitting off a line that is not valid JSON changes neither shared_state
\* nor next_command nor the stop signal, asks for no image, and recv_loop goes on
\* with the next line.
C10_MalformedLineSkipped ==
  [][(rpc = "lines" /\ buffer' = buffer - 1 /\ IsMalformed(line')) =>
       /\ rpc' = "lines"
       /\ UNCHANGED <<shared_state, next_command, stop_event>>]_vars

\* C11: when request_image ends without an image after the length read or a
\* payload read (fewer than 4 length bytes, the connection closed before the L
\* bytes have arrived, or a read that raises), recv_loop goes on with the next
\* line: no decision is called, next_command and the stop signal are unchanged;
\* and the image is opened only when exactly img_size bytes have been read.
C11_FailedFetchIsLocal ==
  /\ [](data <= img_size)
  /\ [][(rpc \in {"img_len", "img_data"} /\ rpc' \notin {"img_len", "img_data"}) =>
          IF rpc' = "decide"
          THEN rpc = "img_data" /\ data = img_size
          ELSE /\ rpc' = "lines"
               /\ n_dec' = n_dec
               /\ next_command' = next_command
               /\ stop_event' = stop_event]_vars

\* C11 witness: the peer has closed; the fetch for the frame LineFull gave no
\* image (no decision was ever made) and recv_loop is handling the next line
C11_Witness ==
  /\ eof
  /\ n_dec = 0
  /\ shared_state = Applied(json_loads(LineFull))
  /\ line = LinePartial
  /\ rpc = "lock"
  /\ ~stop_event

\* C12: when handle_state has written the snapshot for a frame, each of the five
\* fields has the frame's value if the frame carries the field and the default
\* if not, whatever the snapshot held before; no other key of the frame is in it.
C12_AbsentFieldsDefault ==
  rpc \in {"return", "branch"} =>
    /\ DOMAIN shared_state = Fields
    /\ \A k \in Fields :
         shared_state[k] = IF k \in DOMAIN json_loads(line)
                           THEN json_loads(line)[k]
                           ELSE Default(k)

\* C12 witness: a frame without isDead, hasWeapon, numWeapons and gameEnded and
\* with a key outside the five has been applied after an earlier frame
C12_Witness ==
  /\ rpc = "branch"
  /\ line = LinePartial
  /\ n_dec > 0
  /\ shared_state = [isDead |-> FALSE, numActivePlayers |-> 3, hasWeapon |-> FALSE,
                     numWeapons |-> 0, gameEnded |-> FALSE]

\* C13: in every session the snapshot, and every copy send_loop takes of it,
\* defines all five fields, from the start of the session on.
C13_FixedShapeSnapshot ==
  sid > 0 =>
    /\ DOMAIN shared_state = Fields
    /\ latest # Unbound => DOMAIN latest = Fields

\* the token is of LEFT, RIGHT or JUMP
IsMovementToken(t) == t.name \in {"LEFT", "RIGHT", "JUMP"}

\* every movement token of the list has an amount from 0.00 to 1.00
AmountsWithinUnit(tokens) ==
  \A i \in 1..Len(tokens) : IsMovementToken(tokens[i]) => tokens[i].amount \in 0..100

\* C14: left, right and jump raise for an amount below 0 or above 1 and leave the
\* list of tokens as it was; they take 0.0 and 1.0 and append the token; so every
\* movement token of the list and of every built string is from 0.00 to 1.00.
C14_AmountValidated ==
  /\ []AmountsWithinUnit(build)
  /\ [](last_call.op \in {"left", "right", "jump"} =>
          /\ raised <=> (last_call.amount < 0 \/ last_call.amount > 1000)
          /\ ~raised => /\ commands # <<>>
                        /\ commands[Len(commands)].amount = Format2f(last_call.amount))
  /\ [][raised' => commands' = commands]_vars

\* C14 witness: jump(1.1) has raised on a builder that holds LEFT:1.00 and
\* RIGHT:0.00, made with the amounts 1.0 and 0.0
C14_Witness ==
  /\ raised
  /\ last_call = [op |-> "jump", amount |-> 1100]
  /\ commands = <<[name |-> "LEFT", amount |-> 100], [name |-> "RIGHT", amount |-> 0]>>

\* C15: the accept loop ends only when shutdown is set: when a session is over,
\* however it ended, handle_client returns to the loop, which goes on to accept
\* on the open server socket.
C15_ServerSurvivesSession ==
  /\ [](mpc = "exit" => shutdown)
  /\ []((mpc \in {"loop", "accept"} /\ ~shutdown) => ~sock_closed)
  /\ [][(mpc = "close" /\ mpc' # "close") => mpc' = "loop"]_vars
  /\ [][(mpc = "loop" /\ mpc' # "loop" /\ ~shutdown) => mpc' = "accept"]_vars

\* C15 witness: a session ended with no terminal frame and no shutdown (a read
\* error, a failed send or an exception in recv_loop), its socket is closed and
\* the server is in accept again, able to take the next connection
C15_Witness ==
  /\ mpc = "accept"
  /\ close_count = 1
  /\ ~shutdown
  /\ ~EndsGame(line)
  /\ ~sock_closed
  /\ sid < MaxSessions

\* C16: once the stop signal of a session is set, recv_loop and send_loop end and
\* the socket of the session gets closed; and send_loop, in its sleep loop with
\* the signal set, sleeps no further iteration.
C16_StopEndsBothLoops ==
  /\ stop_event ~> (rpc = "done" /\ spc = "done" /\ close_count = 1)
  /\ [][(spc = "sleep" /\ stop_event /\ sid' = sid) => sleep_i' # sleep_i + 1]_vars

\* C16 witness: a terminal frame has set the signal while send_loop is in the
\* middle of its sleep loop and the main thread waits for recv_loop
C16_Witness ==
  /\ stop_event
  /\ ~shutdown
  /\ EndsGame(line)
  /\ rpc = "top"
  /\ spc = "sleep"
  /\ sleep_i = 3
  /\ mpc = "join_receiver"

\* C17: when conn.sendall raises, send_loop sets the stop signal and ends: nothing
\* is written to the connection by that step or later in the session, and the
\* accept loop does not end for it.
C17_SendFailureEndsSender ==
  /\ [][(spc = "sendall" /\ spc' \notin {"sendall", "clear"}) =>
          (stop_event' /\ spc' = "done" /\ wire' = wire)]_vars
  /\ [][(spc = "done" /\ sid' = sid) => (spc' = "done" /\ wire' = wire)]_vars
  /\ []((spc = "done" /\ ~shutdown) => mpc # "exit")

\* C17 witness: send_loop has ended on a failed send (the signal is set while
\* recv_loop is reading an image and the main thread waits for recv_loop: neither
\* of them has set it)
C17_Witness ==
  /\ stop_event
  /\ ~shutdown
  /\ spc = "done"
  /\ rpc = "img_data"
  /\ mpc = "join_receiver"

\* C18: send_loop writes a command to the connection only in a cycle in which it
\* found next_command set, and goes to its sleep without writing when it found
\* None; what it writes is a value that a call of the decision returned before;
\* no value is written twice, and a value that was written does not stay in
\* next_command once line 307 has run.
C18_SendOnlyPendingOnce ==
  /\ [][(wire' # wire /\ sid' = sid) =>
          /\ next_command # None
          /\ \E s \in 1..sid, n \in 1..n_dec : wire' = Append(wire, Decision(s, n))]_vars
  /\ [][(spc = "test" /\ next_command = None /\ spc' # "test") =>
          (spc' = "sleep" /\ wire' = wire)]_vars
  /\ [](\A i, j \in 1..Len(wire) : i # j => wire[i] # wire[j])
  /\ [](spc # "clear" => \A i \in 1..Len(wire) : wire[i] # next_command)

\* C18 witness: two commands have been sent, the slot is empty and send_loop sleeps
C18_Witness ==
  /\ Len(wire) = 2
  /\ next_command = None
  /\ spc = "sleep"
  /\ rpc = "recv"

\* C19: whenever recv_loop has ended, whatever ended it, the stop signal is set,
\* so that send_loop, at the test of its while loop, ends too.
C19_ReceiverExitSetsStop ==
  /\ [](rpc = "done" => stop_event)
  /\ [][(rpc = "done" /\ spc = "top" /\ spc' # "top") => spc' = "done"]_vars

\* C19 witness: recv_loop was ended by the exception on the deeply nested line
\* (no terminal frame, no shutdown, no failed send: send_loop still sleeps) and
\* the main thread has not passed its own stop_event.set()
C19_Witness ==
  /\ rpc = "done"
  /\ line = LineDeep
  /\ ~shutdown
  /\ spc = "sleep"
  /\ mpc = "join_receiver"

\* C20: once recv_loop has handled a terminal frame, the snapshot stays what that
\* frame made it for the rest of the session, with isDead or gameEnded true: no
\* line buffered behind the frame is split off and nothing is written to
\* shared_state.
C20_SnapshotFrozenAfterTerminal ==
  /\ []((EndsGame(line) /\ rpc \notin {"lock", "update"}) =>
          /\ shared_state = Applied(json_loads(line))
          /\ shared_state["isDead"] \/ shared_state["gameEnded"])
  /\ [][(EndsGame(line) /\ rpc \notin {"lock", "update"} /\ sid' = sid) =>
          (shared_state' = shared_state /\ line' = line)]_vars

\* C20 witness: recv_loop has left its loops on the frame LineDead with a line
\* still in the buffer behind it
C20_Witness ==
  /\ line = LineDead
  /\ rpc = "finally"
  /\ buffer > 0
  /\ ~shutdown
  /\ shared_state = Applied(json_loads(LineDead))

====
